---- MODULE Spec2Model ----
(***************************************************************************)
(* Resource-bundle resolution (bokeh/embed/bundle.py) and the blob handler *)
(* (bokeh/server/views/blob_handler.py).                                   *)
(*                                                                         *)
(* Strings are sequences of tokens, so that concatenation, str.split and   *)
(* str.startswith are computed and not assumed: "foo2.models" is           *)
(* <<"foo", "2", ".", "models">>.                                          *)
(***************************************************************************)
EXTENDS Integers, Sequences, FiniteSets, TLC

VARIABLES
    disk,       \* the installed packages: package.json contents and files
    providers,  \* the caller's resource-provider objects, by reference
    servables,  \* bokeh.resources.servables: server path -> artifact path
    last        \* the last handler that ran, its arguments and its outcome

vars == <<disk, providers, servables, last>>

MaxObjs == 2

\* ------------------------------------------------------------- strings

NoneStr == <<"<None>">>
Absent == <<"<absent>">>

StartsWith(s, p) == Len(p) <= Len(s) /\ SubSeq(s, 1, Len(p)) = p

\* s.split(".")[0]
RECURSIVE SplitFirstFrom(_, _)
SplitFirstFrom(s, i) ==
    IF i > Len(s) \/ s[i] = "." THEN SubSeq(s, 1, i - 1)
    ELSE SplitFirstFrom(s, i + 1)

SplitFirst(s) == SplitFirstFrom(s, 1)

AbsoluteLead == {"/", "/site/"}

\* os.path.join(a, b) and os.path.dirname of an installed module's file
Join(a, b) ==
    IF b # <<>> /\ b[1] \in AbsoluteLead THEN b
    ELSE IF a = <<>> \/ a[Len(a)] = "/" THEN a \o b
    ELSE a \o <<"/">> \o b

Base(name) == <<"/site/">> \o name

DEFAULT_SERVER_HTTP_URL == <<"http://localhost:5006/">>

\* ------------------------------------------------ classes and objects

\* Model.model_class_reverse_map.values(), in registration order
ClassOrder ==
    <<"Plot", "Row", "Button", "DataTable",
      "FooThing", "FooWidget", "Foo2Thing", "BarThing", "Custom">>

Classes == {ClassOrder[i] : i \in 1..Len(ClassOrder)}

Core == <<"bokeh", ".", "models">>

Cls(mod, impl, widget, table, plot) ==
    [module |-> mod, view_module |-> mod, impl |-> impl,
     widget |-> widget, table |-> table, plot |-> plot]

ClassInfo ==
    [c \in Classes |->
        CASE c = "Plot"      -> Cls(Core, FALSE, FALSE, FALSE, TRUE)
          [] c = "Row"       -> Cls(Core, FALSE, FALSE, FALSE, FALSE)
          [] c = "Button"    -> Cls(Core, FALSE, TRUE, FALSE, FALSE)
          [] c = "DataTable" -> Cls(Core, FALSE, TRUE, TRUE, FALSE)
          [] c = "FooThing"  -> Cls(<<"foo", ".", "models">>, FALSE, FALSE, FALSE, FALSE)
          [] c = "FooWidget" -> Cls(<<"foo", ".", "models">>, FALSE, TRUE, FALSE, FALSE)
          [] c = "Foo2Thing" -> Cls(<<"foo", "2", ".", "models">>, FALSE, FALSE, FALSE, FALSE)
          [] c = "BarThing"  -> Cls(<<"bar">>, FALSE, FALSE, FALSE, FALSE)
          [] OTHER           -> Cls(<<"__main__">>, TRUE, FALSE, FALSE, FALSE)]

\* the instances a caller can pass, in the iteration order of a set of them
InstOrder ==
    <<"row", "plot", "glplot", "button", "table",
      "foo2thing", "foothing", "barthing", "custom">>

Instances == {InstOrder[i] : i \in 1..Len(InstOrder)}

Obj(cls, backend, refs) == [cls |-> cls, backend |-> backend, refs |-> refs]

\* obj.__class__, obj.output_backend and obj.references()
Inst ==
    [o \in Instances |->
        CASE o = "row"       -> Obj("Row", "", {"row", "plot", "button"})
          [] o = "plot"      -> Obj("Plot", "canvas", {"plot"})
          [] o = "glplot"    -> Obj("Plot", "webgl", {"glplot"})
          [] o = "button"    -> Obj("Button", "", {"button"})
          [] o = "table"     -> Obj("DataTable", "", {"table"})
          [] o = "foothing"  -> Obj("FooThing", "", {"foothing"})
          [] o = "foo2thing" -> Obj("Foo2Thing", "", {"foo2thing"})
          [] o = "barthing"  -> Obj("BarThing", "", {"barthing"})
          [] OTHER           -> Obj("Custom", "", {"custom"})]

ModelItem(o) == [doc |-> FALSE, id |-> o, roots |-> <<>>]
DocItem(roots) == [doc |-> TRUE, id |-> "", roots |-> roots]

\* _all_objs(objs): the union of the references of every model and root
RECURSIVE _all_roots(_, _)
_all_roots(roots, i) ==
    IF i > Len(roots) THEN {}
    ELSE Inst[roots[i]].refs \cup _all_roots(roots, i + 1)

RECURSIVE _all_objs_from(_, _)
_all_objs_from(items, i) ==
    IF i > Len(items) THEN {}
    ELSE (IF items[i].doc THEN _all_roots(items[i].roots, 1)
          ELSE Inst[items[i].id].refs) \cup _all_objs_from(items, i + 1)

_all_objs(items) == _all_objs_from(items, 1)

\* a set of instances in its iteration order
RECURSIVE IterFrom(_, _)
IterFrom(S, i) ==
    IF i > Len(InstOrder) THEN <<>>
    ELSE (IF InstOrder[i] \in S THEN <<InstOrder[i]>> ELSE <<>>) \o IterFrom(S, i + 1)

Iter(S) == IterFrom(S, 1)

\* ---------------------------------------------------- feature detection

\* the three predicates passed to _any, and the two passed to _query_extensions
QueryInst(q, o) ==
    CASE q = "gl"     -> ClassInfo[Inst[o].cls].plot /\ Inst[o].backend = "webgl"
      [] q = "tables" -> ClassInfo[Inst[o].cls].table
      [] OTHER        -> ClassInfo[Inst[o].cls].widget

QueryCls(q, c) ==
    IF q = "tables" THEN ClassInfo[c].table ELSE ClassInfo[c].widget

RECURSIVE _any_roots(_, _, _)
_any_roots(roots, i, q) ==
    IF i > Len(roots) THEN FALSE
    ELSE IF \E r \in Inst[roots[i]].refs : QueryInst(q, r) THEN TRUE
    ELSE _any_roots(roots, i + 1, q)

RECURSIVE _any_from(_, _, _)
_any_from(items, i, q) ==
    IF i > Len(items) THEN FALSE
    ELSE IF items[i].doc
        THEN (IF _any_roots(items[i].roots, 1, q) THEN TRUE
              ELSE _any_from(items, i + 1, q))
    ELSE IF \E r \in Inst[items[i].id].refs : QueryInst(q, r) THEN TRUE
    ELSE _any_from(items, i + 1, q)

_any(items, q) == _any_from(items, 1, q)

RECURSIVE _query_extensions_from(_, _, _, _)
_query_extensions_from(its, i, names, q) ==
    IF i > Len(its) THEN FALSE
    ELSE LET c == ClassInfo[Inst[its[i]].cls]
             name == SplitFirst(c.view_module)
         IN IF c.impl \/ name = <<"bokeh">> \/ name \in names
                THEN _query_extensions_from(its, i + 1, names, q)
            ELSE IF \E m \in Classes :
                        StartsWith(ClassInfo[m].module, name) /\ QueryCls(q, m)
                THEN TRUE
            ELSE _query_extensions_from(its, i + 1, names \cup {name}, q)

_query_extensions(items, q) ==
    _query_extensions_from(Iter(_all_objs(items)), 1, {}, q)

\* any plot, whatever its backend
_use_gl_any_plot(items) == \E o \in _all_objs(items) : ClassInfo[Inst[o].cls].plot

_use_gl(items) == _any(items, "gl")

_use_tables(items) == _any(items, "tables") \/ _query_extensions(items, "tables")

_use_widgets(items) == _any(items, "widgets") \/ _query_extensions(items, "widgets")

\* `if objs is not None`
TruthyNotNone(objs) == ~objs.none

\* `if objs`: neither None nor an empty sequence
Truthy(objs) == ~objs.none /\ Len(objs.items) > 0

\* ---------------------------------------------------------- the disk

exists(dsk, path) == path \in DOMAIN dsk.meta \/ path \in dsk.files

\* the bytes of a file
Content(path) == <<"bytes of ">> \o path

\* ------------------------------------------------- extension resolver

Embed(artifact_path, server_url, cdn_url) ==
    [artifact_path |-> artifact_path, server_url |-> server_url, cdn_url |-> cdn_url]

Raised(error, reg) ==
    [error |-> error, bundles |-> <<>>, servables |-> reg]

\* the for/else over the extensions of a package without package.json: the
\* existence test reads the unbound name `artifact`
RECURSIVE SearchDist(_, _, _, _, _)
SearchDist(dsk, name, base, extensions, i) ==
    IF i > Len(extensions)
        THEN [error |-> "ValueError: can't resolve artifact path",
              artifact_path |-> NoneStr, server_path |-> NoneStr]
    ELSE LET artifact_path == Join(base, <<"dist/">> \o name \o <<extensions[i]>>)
             server_path == name \o <<"@latest/dist/">> \o name \o <<extensions[i]>>
         IN [error |-> "NameError: artifact",
             artifact_path |-> artifact_path, server_path |-> server_path]

\* the package.json branch
FromMetadata(pkg, base) ==
    IF pkg.name = Absent
        THEN [error |-> "KeyError: name", artifact_path |-> NoneStr,
              server_path |-> NoneStr, cdn_url |-> NoneStr]
    ELSE IF pkg.main = Absent
        THEN [error |-> "KeyError: main", artifact_path |-> NoneStr,
              server_path |-> NoneStr, cdn_url |-> NoneStr]
    ELSE LET version == IF pkg.version = Absent THEN <<"latest">> ELSE pkg.version
             main == IF pkg.module # Absent THEN pkg.module ELSE pkg.main
             server_path == pkg.name \o <<"@^">> \o version \o <<"/">> \o main
         IN [error |-> "",
             artifact_path |-> Join(base, main),
             server_path |-> server_path,
             cdn_url |-> <<"https://unpkg.com/">> \o server_path]

\* one package: its artifact path, server path and cdn url, or the error
ResolvePackage(dsk, name, extensions) ==
    LET base == Base(name)
        package_path == Join(base, <<"package.json">>)
    IN IF exists(dsk, package_path)
           THEN FromMetadata(dsk.meta[package_path], base)
       ELSE LET f == SearchDist(dsk, name, base, extensions, 1)
            IN [error |-> f.error, artifact_path |-> f.artifact_path,
                server_path |-> f.server_path, cdn_url |-> NoneStr]

\* servables[server_path] = artifact_path
Register(reg, server_path, artifact_path) ==
    (server_path :> artifact_path) @@ reg

RECURSIVE _bundle_extensions_from(_, _, _, _, _, _, _)
_bundle_extensions_from(dsk, cands, i, names, bundles, reg, extensions) ==
    IF i > Len(cands) THEN [error |-> "", bundles |-> bundles, servables |-> reg]
    ELSE LET c == ClassInfo[cands[i]]
             name == SplitFirst(c.view_module)
         IN IF c.impl \/ name = <<"bokeh">> \/ name \in names
                THEN _bundle_extensions_from(dsk, cands, i + 1, names, bundles, reg, extensions)
            ELSE LET r == ResolvePackage(dsk, name, extensions)
                     server_url == DEFAULT_SERVER_HTTP_URL \o <<"static/extensions">>
                                       \o <<"/">> \o r.server_path
                 IN IF r.error # "" THEN Raised(r.error, reg)
                    ELSE _bundle_extensions_from(
                             dsk, cands, i + 1, names \cup {name},
                             Append(bundles, Embed(r.artifact_path, server_url, r.cdn_url)),
                             Register(reg, r.server_path, r.artifact_path),
                             extensions)

\* the classes of the candidates: the referenced objects, or every registered class
Candidates(objs) ==
    IF objs.none THEN ClassOrder
    ELSE LET its == Iter(_all_objs(objs.items))
         IN [i \in 1..Len(its) |-> Inst[its[i]].cls]

_bundle_extensions(dsk, objs, resources, reg) ==
    LET extensions == IF resources.minified THEN <<".min.js", ".js">> ELSE <<".js">>
    IN _bundle_extensions_from(dsk, Candidates(objs), 1, {}, <<>>, reg, extensions)

\* ------------------------------------------------- resource providers

\* what a provider serves for one component, by its mode
ComponentFile(res, component, suffix) ==
    LET file == <<component>> \o (IF res.minified THEN <<".min">> ELSE <<>>) \o <<suffix>>
    IN CASE res.mode = "cdn"    -> <<"https://cdn.bokeh.org/bokeh/release/">> \o file
         [] res.mode = "server" -> DEFAULT_SERVER_HTTP_URL \o <<"static/">> \o file
         [] OTHER               -> <<"bokeh/server/static/">> \o file

\* BaseResources.js_files, js_raw, css_files, css_raw and hashes
js_files(res) ==
    IF res.mode = "inline" THEN <<>>
    ELSE [i \in 1..Len(res.js_components) |-> ComponentFile(res, res.js_components[i], ".js")]

js_raw(res) ==
    IF res.mode # "inline" THEN <<>>
    ELSE [i \in 1..Len(res.js_components) |->
              Content(ComponentFile(res, res.js_components[i], ".js"))]

css_files(res) ==
    IF res.mode = "inline" THEN <<>>
    ELSE [i \in 1..Len(res.css_components) |-> ComponentFile(res, res.css_components[i], ".css")]

css_raw(res) ==
    IF res.mode # "inline" THEN <<>>
    ELSE [i \in 1..Len(res.css_components) |->
              Content(ComponentFile(res, res.css_components[i], ".css"))]

NoHashes == [present |-> FALSE, files |-> {}]

hashes(res) ==
    [present |-> TRUE,
     files |-> IF res.mode = "cdn"
                   THEN {js_files(res)[i] : i \in 1..Len(res.js_components)} ELSE {}]

\* Resources(mode=...)
NewResources(mode) ==
    [mode |-> mode, minified |-> TRUE,
     js_components |-> <<"bokeh", "bokeh-widgets", "bokeh-tables", "bokeh-gl">>,
     css_components |-> <<"bokeh">>]

\* Resources._inline(path): the text of the file, or the error of opening it
_inline_fails(dsk, bundles) ==
    \E i \in 1..Len(bundles) : ~exists(dsk, bundles[i].artifact_path)

\* bundle_models(models): the generated code of the classes that carry their
\* implementation inline, if there is any
bundle_models(objs) ==
    LET models == IF Truthy(objs) THEN {Inst[o].cls : o \in _all_objs(objs.items)}
                  ELSE Classes
    IN IF \E c \in models : ClassInfo[c].impl THEN <<"generated code">> ELSE NoneStr

\* ------------------------------------------------------------ assembler

\* list.remove(x), guarded by `x in list`
RECURSIVE RemoveFrom(_, _, _)
RemoveFrom(seq, x, i) ==
    IF i > Len(seq) THEN seq
    ELSE IF seq[i] = x THEN SubSeq(seq, 1, i - 1) \o SubSeq(seq, i + 1, Len(seq))
    ELSE RemoveFrom(seq, x, i + 1)

Remove(seq, x) == RemoveFrom(seq, x, 1)

\* no copy: the reference of the caller
deepcopy_alias(heap, ref, fresh) == [heap |-> heap, ref |-> ref]

\* deepcopy(resources): a new object on the heap, and the reference to it
deepcopy(heap, ref, fresh) ==
    [heap |-> (fresh :> heap[ref]) @@ heap, ref |-> fresh]

\* lines 166-171: the components of the script provider the objects do not use
Prune(heap, ref, use_widgets, use_tables, use_gl) ==
    LET c0 == heap[ref].js_components
        c1 == IF ~use_widgets THEN Remove(c0, "bokeh-widgets") ELSE c0
        c2 == IF ~use_tables THEN Remove(c1, "bokeh-tables") ELSE c1
        c3 == IF ~use_gl THEN Remove(c2, "bokeh-gl") ELSE c2
    IN [heap EXCEPT ![ref].js_components = c3]

\* the server and cdn branches taken for each other
ProjectFilesSwapped(mode, extensions) ==
    CASE mode = "inline" -> <<>>
      [] mode = "server" -> [i \in 1..Len(extensions) |-> extensions[i].cdn_url]
      [] mode = "cdn"    -> [i \in 1..Len(extensions) |-> extensions[i].server_url]
      [] OTHER           -> [i \in 1..Len(extensions) |-> extensions[i].artifact_path]

\* lines 184-191: the extensions in the script side of the bundle
ProjectFiles(mode, extensions) ==
    CASE mode = "inline" -> <<>>
      [] mode = "server" -> [i \in 1..Len(extensions) |-> extensions[i].server_url]
      [] mode = "cdn"    -> [i \in 1..Len(extensions) |-> extensions[i].cdn_url]
      [] OTHER           -> [i \in 1..Len(extensions) |-> extensions[i].artifact_path]

ProjectRaw(mode, extensions) ==
    IF mode = "inline"
        THEN [i \in 1..Len(extensions) |-> Content(extensions[i].artifact_path)]
    ELSE <<>>

EmptyBundle ==
    [js_files |-> <<>>, js_raw |-> <<>>, css_files |-> <<>>, css_raw |-> <<>>,
     hashes |-> NoHashes]

NoRef == ""

CSS_WARNING ==
    "No Bokeh CSS Resources provided to template. If required you will need to provide them manually."
JS_WARNING ==
    "No Bokeh JS Resources provided to template. If required you will need to provide them manually."

Outcome(status, warnings, computed, uw, ut, ug, extensions, bundle, reg, heap) ==
    [status |-> status, warnings |-> warnings, computed |-> computed,
     use_widgets |-> uw, use_tables |-> ut, use_gl |-> ug,
     extensions |-> extensions, bundle |-> bundle, servables |-> reg, heap |-> heap]

\* lines 152-198, the configuration being split in resources, js_resources and
\* css_resources
Assemble(dsk, heap0, reg, objs, cfg, warnings) ==
    LET use_widgets == IF Truthy(objs) THEN _use_widgets(objs.items) ELSE TRUE
        use_tables  == IF Truthy(objs) THEN _use_tables(objs.items) ELSE TRUE
        use_gl      == IF Truthy(objs) THEN _use_gl(objs.items) ELSE TRUE
        jsc   == IF cfg.js # NoRef THEN deepcopy(heap0, cfg.js, "js copy")
                 ELSE [heap |-> heap0, ref |-> NoRef]
        heap1 == IF cfg.js # NoRef
                     THEN Prune(jsc.heap, jsc.ref, use_widgets, use_tables, use_gl)
                 ELSE heap0
        cssc  == IF cfg.css # NoRef THEN deepcopy(heap1, cfg.css, "css copy")
                 ELSE [heap |-> heap1, ref |-> NoRef]
        heap2 == cssc.heap
        js    == heap2[jsc.ref]
        css   == heap2[cssc.ref]
        ext   == IF jsc.ref # NoRef THEN _bundle_extensions(dsk, objs, js, reg)
                 ELSE [error |-> "", bundles |-> <<>>, servables |-> reg]
        mode  == heap2[cfg.resources].mode
        code  == bundle_models(objs)
        status ==
            IF ext.error # "" THEN ext.error
            ELSE IF jsc.ref # NoRef /\ cfg.resources = "tuple"
                THEN "AttributeError: 'tuple' object has no attribute 'mode'"
            ELSE IF jsc.ref # NoRef /\ mode = "inline" /\ _inline_fails(dsk, ext.bundles)
                THEN "FileNotFoundError"
            ELSE "ok"
    IN Outcome(status, warnings, TRUE, use_widgets, use_tables, use_gl,
               IF status = "ok" THEN ext.bundles ELSE <<>>,
               IF status # "ok" THEN EmptyBundle
               ELSE [js_files  |-> IF jsc.ref = NoRef THEN <<>>
                                   ELSE js_files(js) \o ProjectFiles(mode, ext.bundles),
                     js_raw    |-> (IF jsc.ref = NoRef THEN <<>>
                                    ELSE js_raw(js) \o ProjectRaw(mode, ext.bundles))
                                   \o (IF code # NoneStr THEN <<code>> ELSE <<>>),
                     css_files |-> IF cssc.ref # NoRef THEN css_files(css) ELSE <<>>,
                     css_raw   |-> IF cssc.ref # NoRef THEN css_raw(css) ELSE <<>>,
                     hashes    |-> IF jsc.ref # NoRef THEN hashes(js) ELSE NoHashes],
               ext.servables, heap2)

\* lines 135-150: the configuration as (resources, js_resources, css_resources),
\* a string being the mode of a provider made on the spot
Split(resources) ==
    CASE resources.kind = "str"  -> [resources |-> "made", js |-> "made", css |-> "made"]
      [] resources.kind = "pair" -> [resources |-> "tuple", js |-> resources.js,
                                     css |-> resources.css]
      [] OTHER                   -> [resources |-> resources.js, js |-> resources.js,
                                     css |-> resources.js]

Warnings(resources) ==
    IF resources.kind # "pair" THEN <<>>
    ELSE (IF resources.js # NoRef /\ resources.css = NoRef THEN <<CSS_WARNING>> ELSE <<>>)
         \o (IF resources.css # NoRef /\ resources.js = NoRef THEN <<JS_WARNING>> ELSE <<>>)

\* bundle_for_objs_and_resources(objs, resources)
bundle_for_objs_and_resources(dsk, heap, reg, objs, resources) ==
    IF resources.kind = "invalid"
        THEN Outcome("ValueError: expected Resources or a pair of optional Resources",
                     <<>>, FALSE, FALSE, FALSE, FALSE, <<>>, EmptyBundle, reg, heap)
    ELSE Assemble(dsk,
                  IF resources.kind = "str"
                      THEN ("made" :> NewResources(resources.mode)) @@ heap ELSE heap,
                  reg, objs, Split(resources), Warnings(resources))

\* --------------------------------------------------------- blob handler

NoResponse == [status |-> "", content_type |-> "", body |-> <<>>]

\* a missing file answered as a missing key
get_missing_as_404(dsk, blobs, path) ==
    IF path \in DOMAIN blobs /\ exists(dsk, blobs[path])
        THEN [status |-> "200", content_type |-> "application/octet-stream",
              body |-> Content(blobs[path])]
    ELSE [status |-> "404", content_type |-> "", body |-> <<>>]

\* BlobHandler.get(path), with blobs the servable registry
get(dsk, blobs, path) ==
    IF path \in DOMAIN blobs
        THEN LET artifact_path == blobs[path]
             IN IF exists(dsk, artifact_path)
                    THEN [status |-> "200",
                          content_type |-> "application/octet-stream",
                          body |-> Content(artifact_path)]
                ELSE [status |-> "FileNotFoundError", content_type |-> "", body |-> <<>>]
    ELSE [status |-> "404", content_type |-> "", body |-> <<>>]

\* ------------------------------------------------------------- inputs

Meta(name, version, main, module) ==
    [name |-> name, version |-> version, main |-> main, module |-> module]

PackageJson(name) == Join(Base(name), <<"package.json">>)

\* what foo's package.json declares: main, module, both or neither, and a
\* version or none
FooMetas ==
    {Meta(<<"foo">>, <<"1.2.0">>, m, mo) :
        m \in {<<"dist/foo.js">>, Absent}, mo \in {Absent, <<"dist/foo.mjs">>}}
    \cup {Meta(<<"foo">>, Absent, <<"dist/foo.js">>, Absent)}

FooMeta == Meta(<<"foo">>, <<"1.2.0">>, <<"dist/foo.js">>, Absent)

\* the package.json of foo2: its own name, or the name its sibling declares
Foo2Metas ==
    {Meta(<<"foo", "2">>, <<"0.3.1">>, <<"dist/foo2.js">>, Absent), FooMeta}

Foo2Meta == Meta(<<"foo", "2">>, <<"0.3.1">>, <<"dist/foo2.js">>, Absent)

BuiltFiles ==
    {Join(Base(<<"foo">>), <<"dist/foo.js">>),
     Join(Base(<<"foo">>), <<"dist/foo.mjs">>),
     Join(Base(<<"foo", "2">>), <<"dist/foo2.js">>),
     Join(Base(<<"foo", "2">>), <<"dist/foo.js">>)}

BarJs == Join(Base(<<"bar">>), <<"dist/", "bar", ".js">>)
BarMinJs == Join(Base(<<"bar">>), <<"dist/", "bar", ".min.js">>)

\* foo's entry point was never built
Unbuilt == (BuiltFiles \ {Join(Base(<<"foo">>), <<"dist/foo.js">>)}) \cup {BarJs}

Disk(foo, foo2, files) ==
    [meta |-> (PackageJson(<<"foo">>) :> foo) @@ (PackageJson(<<"foo", "2">>) :> foo2),
     files |-> files]

\* the installations: bar never ships a package.json
Disks ==
    {Disk(foo, Foo2Meta, BuiltFiles \cup {BarJs}) : foo \in FooMetas}
    \cup {Disk(FooMeta, foo2, BuiltFiles \cup {BarJs}) : foo2 \in Foo2Metas}
    \cup {Disk(FooMeta, Foo2Meta, files) : files \in {BuiltFiles, Unbuilt}}

AllComponents == <<"bokeh", "bokeh-widgets", "bokeh-tables", "bokeh-gl">>

Provider(mode, minified, components) ==
    [mode |-> mode, minified |-> minified,
     js_components |-> components, css_components |-> <<"bokeh">>]

\* the provider objects the callers hold
Providers ==
    ("inline" :> Provider("inline", TRUE, AllComponents))
    @@ ("server" :> Provider("server", TRUE, AllComponents))
    @@ ("cdn" :> Provider("cdn", TRUE, AllComponents))
    @@ ("relative" :> Provider("relative", FALSE, <<"bokeh", "bokeh-gl">>))

Config(kind, js, css, mode) == [kind |-> kind, js |-> js, css |-> css, mode |-> mode]

ResourceInputs ==
    {Config("none", NoRef, NoRef, "")}
    \cup {Config("single", p, p, "") : p \in DOMAIN Providers}
    \cup {Config("str", NoRef, NoRef, "cdn")}
    \cup {Config("pair", "server", NoRef, ""), Config("pair", NoRef, "cdn", ""),
          Config("pair", "server", "cdn", "")}
    \cup {Config("invalid", NoRef, NoRef, "")}

ItemPool ==
    <<ModelItem("row"), ModelItem("table"), ModelItem("glplot"),
      ModelItem("foothing"), ModelItem("barthing"),
      DocItem(<<"plot", "foo2thing", "custom">>)>>

RECURSIVE Pick(_, _)
Pick(I, i) ==
    IF i > Len(ItemPool) THEN <<>>
    ELSE (IF i \in I THEN <<ItemPool[i]>> ELSE <<>>) \o Pick(I, i + 1)

NoObjs == [none |-> TRUE, items |-> <<>>]

ObjsInputs ==
    {NoObjs}
    \cup {[none |-> FALSE, items |-> Pick(I, 1)] :
            I \in {J \in SUBSET (1..Len(ItemPool)) : Cardinality(J) <= MaxObjs}}

RequestPaths ==
    {<<"foo", "@^", "1.2.0", "/", "dist/foo.js">>,
     <<"foo", "2", "@^", "0.3.1", "/", "dist/foo2.js">>,
     <<"bar", "@latest/dist/", "bar", ".js">>,
     <<"favicon.ico">>}

\* ---------------------------------------------------------- the machine

NoOutcome ==
    [status |-> "", warnings |-> <<>>, computed |-> FALSE,
     use_widgets |-> FALSE, use_tables |-> FALSE, use_gl |-> FALSE,
     extensions |-> <<>>, bundle |-> EmptyBundle]

Record(op, objs, resources, out, path, response) ==
    [op |-> op, objs |-> objs, resources |-> resources, out |-> out,
     path |-> path, response |-> response]

Init ==
    /\ disk \in Disks
    /\ providers = Providers
    /\ servables = << >>
    /\ last = Record("", NoObjs, Config("none", NoRef, NoRef, ""), NoOutcome,
                     <<>>, NoResponse)

BundleCall ==
    \E objs \in ObjsInputs, resources \in ResourceInputs :
        \E out \in {bundle_for_objs_and_resources(disk, providers, servables,
                                                   objs, resources)} :
            /\ servables' = out.servables
            /\ providers' = [p \in DOMAIN providers |-> out.heap[p]]
            /\ last' = Record("bundle", objs, resources,
                              [f \in DOMAIN NoOutcome |-> out[f]], <<>>, NoResponse)
            /\ UNCHANGED disk

BlobGet ==
    \E path \in RequestPaths :
        /\ last' = Record("get", NoObjs, Config("none", NoRef, NoRef, ""), NoOutcome,
                          path, get(disk, servables, path))
        /\ UNCHANGED <<disk, providers, servables>>

Next == BundleCall \/ BlobGet

Spec == Init /\ [][Next]_vars

\* the installations whose metadata is complete and distinct
InitInstalled ==
    /\ Init
    /\ disk \in {Disk(FooMeta, Foo2Meta, BuiltFiles \cup {BarJs}),
                 Disk(FooMeta, Foo2Meta, Unbuilt)}

SpecInstalled == InitInstalled /\ [][Next]_vars

\* ----------------------------------------------------------- properties

Called == last.op = "bundle"
Returned == Called /\ last.out.status = "ok"

\* the call was given a script provider
JsGiven ==
    \/ last.resources.kind \in {"single", "str"}
    \/ last.resources.kind = "pair" /\ last.resources.js # NoRef

\* the script provider the caller passed, as the caller holds it
JsProvider ==
    IF last.resources.kind = "str" THEN NewResources(last.resources.mode)
    ELSE providers[last.resources.js]

Range(seq) == {seq[i] : i \in 1..Len(seq)}

\* every object the arguments of the call refer to
Referenced ==
    UNION {IF it.doc THEN UNION {Inst[r].refs : r \in Range(it.roots)}
           ELSE Inst[it.id].refs : it \in Range(last.objs.items)}

\* the top-level package of a referenced object that is neither core nor inline
PackageOf(o) == SplitFirst(ClassInfo[Inst[o].cls].view_module)

ThirdParty ==
    {o \in Referenced : ~ClassInfo[Inst[o].cls].impl /\ PackageOf(o) # <<"bokeh">>}

Packages == {PackageOf(o) : o \in ThirdParty}

ServerPath(name, version, entry) == name \o <<"@^">> \o version \o <<"/">> \o entry

ServerUrl(server_path) ==
    <<"http://localhost:5006/", "static/extensions", "/">> \o server_path

\* C1: when a bundle is returned from a script provider, the descriptors of the
\* resolver are, in resolution order, the last entries of the script side: their
\* file contents among the raw scripts under inline, their server urls among the
\* script files under server, their cdn urls under cdn, their artifact paths under
\* any other mode; and no descriptor shows anywhere else in the script side.
C1_ModeProjection ==
    (Returned /\ JsGiven) =>
        LET ext   == last.out.extensions
            n     == Len(ext)
            mode  == JsProvider.mode
            files == last.out.bundle.js_files
            raw   == last.out.bundle.js_raw
            nf    == IF mode = "inline" THEN 0 ELSE n
            nr    == IF mode = "inline" THEN n ELSE 0
            entry(e) == CASE mode = "inline" -> Content(e.artifact_path)
                          [] mode = "server" -> e.server_url
                          [] mode = "cdn"    -> e.cdn_url
                          [] OTHER           -> e.artifact_path
            any   == UNION {{Content(e.artifact_path), e.server_url, e.cdn_url,
                             e.artifact_path} : e \in Range(ext)}
        IN /\ Len(files) >= nf
           /\ \A i \in 1..nf : files[Len(files) - nf + i] = entry(ext[i])
           /\ \A i \in 1..(Len(files) - nf) : files[i] \notin any
           /\ \E g \in {0, 1} :
                /\ Len(raw) >= nr + g
                /\ \A i \in 1..nr : raw[Len(raw) - g - nr + i] = entry(ext[i])
                /\ \A i \in 1..(Len(raw) - g - nr) : raw[i] \notin any
                /\ g = 1 => raw[Len(raw)] \notin any

C1_Witness ==
    /\ Returned /\ last.resources = Config("single", "server", "server", "")
    /\ Len(last.out.extensions) = 2
    /\ Len(last.out.bundle.js_files) > 2

\* the entries a provider serves for the three optional components
Optional == {"bokeh-widgets", "bokeh-tables", "bokeh-gl"}

OptionalEntries ==
    UNION {{ComponentFile(JsProvider, c, ".js"),
            Content(ComponentFile(JsProvider, c, ".js"))} : c \in Optional}

NoFeatureInstance ==
    \A o \in Referenced :
        /\ ~ClassInfo[Inst[o].cls].widget
        /\ ~ClassInfo[Inst[o].cls].table
        /\ ~(ClassInfo[Inst[o].cls].plot /\ Inst[o].backend = "webgl")

\* a registered class of a module named after a referenced third-party package
\* is a widget (a table widget)
PackageDeclares(q) ==
    \E name \in Packages : \E m \in Classes :
        /\ StartsWith(ClassInfo[m].module, name)
        /\ IF q = "tables" THEN ClassInfo[m].table ELSE ClassInfo[m].widget

Pruned ==
    /\ ~last.out.use_widgets /\ ~last.out.use_tables /\ ~last.out.use_gl
    /\ (Returned /\ JsGiven) =>
           /\ Range(last.out.bundle.js_files) \cap OptionalEntries = {}
           /\ Range(last.out.bundle.js_raw) \cap OptionalEntries = {}

C3_EmptyKeepsAll ==
    (Called /\ last.out.computed /\ (last.objs.none \/ last.objs.items = <<>>)) =>
        /\ last.out.use_widgets /\ last.out.use_tables /\ last.out.use_gl
        /\ (Returned /\ JsGiven) =>
               LET cs == JsProvider.js_components
                   side == IF JsProvider.mode = "inline" THEN last.out.bundle.js_raw
                           ELSE last.out.bundle.js_files
               IN /\ Len(side) >= Len(cs)
                  /\ \A i \in 1..Len(cs) :
                        side[i] = IF JsProvider.mode = "inline"
                                      THEN Content(ComponentFile(JsProvider, cs[i], ".js"))
                                  ELSE ComponentFile(JsProvider, cs[i], ".js")

C3_Witness ==
    /\ Returned /\ last.resources = Config("single", "cdn", "cdn", "")
    /\ ~last.objs.none /\ last.objs.items = <<>>
    /\ Len(last.out.bundle.js_files) = 4

\* C4, as claimed: a key of the registry keeps its value in every later state.
C4_RegistryStable ==
    [][\A k \in DOMAIN servables :
            k \in DOMAIN servables' /\ servables'[k] = servables[k]]_vars

\* the response to a request for a registered path whose file is on disk
Served(path) ==
    [status |-> "200", content_type |-> "application/octet-stream",
     body |-> Content(servables[path])]

\* C5, as amended: the handler answers 404 exactly for a path not in the
\* registry; for a registered path whose file is on disk it answers with
\* application/octet-stream and the bytes of that file; for a registered path
\* whose file is missing the error of opening it is raised and nothing is
\* written; and a request never changes the registry.
C5_BlobLookup ==
    [][/\ last'.op = "get" =>
            /\ servables' = servables
            /\ (last'.response.status = "404") <=> (last'.path \notin DOMAIN servables)
            /\ last'.path \in DOMAIN servables =>
                  IF servables[last'.path] \in disk.files
                      THEN last'.response = Served(last'.path)
                  ELSE /\ last'.response.status = "FileNotFoundError"
                       /\ last'.response.body = <<>>]_vars

\* C5, as claimed: 404 exactly for an unregistered path, and otherwise the bytes
\* of the mapped file.
C5_Original ==
    last.op = "get" =>
        IF last.path \in DOMAIN servables THEN last.response = Served(last.path)
        ELSE last.response.status = "404"

C5_Witness ==
    /\ last.op = "get" /\ last.path \in DOMAIN servables
    /\ last.response = Served(last.path)
    /\ Cardinality(DOMAIN servables) = 2

\* the descriptor and the registry key of bar, were its dist/bar.js resolved
BarKey == <<"bar", "@latest/dist/", "bar", ".js">>

\* C6, as claimed: bar has no package.json, dist/bar.js and no dist/bar.min.js;
\* with a minified provider the resolution succeeds with dist/bar.js, registered
\* as bar@latest/dist/bar.js, and no cdn url.
C6_FallbackToPlainJs ==
    (Called /\ last.resources.kind = "single" /\ JsProvider.minified
        /\ Packages = {<<"bar">>}
        /\ BarJs \in disk.files /\ BarMinJs \notin disk.files) =>
        /\ BarKey \in DOMAIN servables /\ servables[BarKey] = BarJs
        /\ last.out.status \in {"ok", "FileNotFoundError"}
        /\ Returned => last.out.extensions = <<Embed(BarJs, ServerUrl(BarKey), NoneStr)>>

\* C7, as claimed: bar has neither package.json nor a dist artifact; the call
\* fails with the ValueError, nothing is registered for bar and no bundle is
\* returned.
C7_Unresolvable ==
    (Called /\ JsGiven /\ Packages = {<<"bar">>}
        /\ BarJs \notin disk.files /\ BarMinJs \notin disk.files) =>
        /\ last.out.status = "ValueError: can't resolve artifact path"
        /\ last.out.extensions = <<>>
        /\ last.out.bundle = EmptyBundle
        /\ \A k \in DOMAIN servables : ~StartsWith(k, <<"bar">>)

\* C8, as claimed: a pair with one side absent warns and still returns a bundle:
\* with the script provider only, no styles; with the style provider only, no
\* script file, no extension and no hashes.
C8_PairOneSide ==
    (Called /\ last.resources.kind = "pair"
        /\ (last.resources.js = NoRef) # (last.resources.css = NoRef)) =>
        /\ Len(last.out.warnings) = 1
        /\ last.out.status = "ok"
        /\ last.resources.css = NoRef =>
              last.out.bundle.css_files = <<>> /\ last.out.bundle.css_raw = <<>>
        /\ last.resources.js = NoRef =>
              /\ last.out.bundle.js_files = <<>>
              /\ last.out.extensions = <<>>
              /\ ~last.out.bundle.hashes.present

\* C9: a call with the arguments of the call before it has the outcome of the
\* call before it, and no call changes a provider of the caller.
C9_Idempotent ==
    [][last'.op = "bundle" =>
            /\ providers' = providers
            /\ (Called /\ last'.objs = last.objs /\ last'.resources = last.resources)
                  => last'.out = last.out]_vars

C9_Witness ==
    /\ Returned /\ last.resources = Config("single", "cdn", "cdn", "")
    /\ Len(last.out.bundle.js_files) < Len(providers["cdn"].js_components)
    /\ Len(last.out.extensions) = 1
    /\ servables # << >>
    /\ providers = Providers

\* C10, as claimed: foo has a package.json; its entry point is the module field
\* when declared and the main field otherwise, its version the declared one or
\* latest, and the resolver registers <name>@^<version>/<entry> for the entry
\* under the package root and yields the unpkg url of it.
C10_FromMetadata ==
    LET pkg     == disk.meta[PackageJson(<<"foo">>)]
        entry   == IF pkg.module # Absent THEN pkg.module ELSE pkg.main
        version == IF pkg.version # Absent THEN pkg.version ELSE <<"latest">>
        key     == ServerPath(pkg.name, version, entry)
        path    == Base(<<"foo">>) \o <<"/">> \o entry
    IN (Called /\ JsGiven /\ Packages = {<<"foo">>} /\ entry # Absent) =>
           /\ key \in DOMAIN servables /\ servables[key] = path
           /\ Returned =>
                 last.out.extensions =
                     <<Embed(path, ServerUrl(key), <<"https://unpkg.com/">> \o key)>>

====
